---- MODULE Spec2Model ----
(***************************************************************************)
(* Model of the two clients of the zeno repository:                        *)
(*   - the React component TestBackend (frontend/src/components/           *)
(*     TestBackend.tsx) and its asynchronous handler testApi;              *)
(*   - the Swift actor TokenService (fetchConnectionDetails,               *)
(*     getClerkSessionToken, fetchConnectionDetailsFromBackend).           *)
(*   - the error slot of the SwiftUI AppView and the task list of the      *)
(*     React component Dashboard.                                          *)
(* The identity provider and the backend are the environment: every        *)
(* outcome of getToken, fetch, Response.text, Response.json and            *)
(* URLSession.data is an input drawn from a small set.                     *)
(* An optional value (null / nil) is a sequence of length 0 or 1.          *)
(***************************************************************************)
EXTENDS Integers, Sequences, FiniteSets, TLC

VARIABLES
    client,      \* which part this run is: "web", "ios", "appview" or "dashboard"
    viteApiBaseUrl, \* import.meta.env.VITE_API_BASE_URL ("" when unset)
    mounted,     \* the TestBackend component is rendered inside <SignedIn>
    loading,     \* useState(false)
    response,    \* useState<ApiResponse | null>(null)
    endpoint,    \* useState('/user/test-auth')
    started,     \* number of testApi invocations so far
    calls,       \* testApi invocations: the pending ones and the last finished
    infoPlistUrl,\* Info.plist entry ApiBaseUrl (absent, or a string)
    icalls,      \* fetchConnectionDetails invocations on the TokenService actor
    error,       \* AppView: @State private var error: Error?
    errorHandler,\* Dependencies.shared.errorHandler: "other" or "AppView"
    reports,     \* the errors callers have passed to Dependencies.shared.errorHandler
    dismissed,   \* how often the user has dismissed the error view
    isLoaded,    \* Dashboard: useUser().isLoaded
    user,        \* Dashboard: useUser().user
    briefing,    \* Dashboard: useState<string>('')
    tasks,       \* Dashboard: useState<any[]>([])
    dashLoading, \* Dashboard: useState(true), the state named loading
    timers       \* Dashboard: timeouts set by the effect that have not fired

viewVars == <<error, errorHandler, reports, dismissed>>
dashVars == <<isLoaded, user, briefing, tasks, dashLoading, timers>>
uiVars == <<viewVars, dashVars>>

vars == <<client, viteApiBaseUrl, mounted, loading, response, endpoint,
          started, calls, infoPlistUrl, icalls, uiVars>>

webVars == <<viteApiBaseUrl, mounted, loading, response, endpoint, started, calls>>
iosVars == <<infoPlistUrl, icalls>>

----------------------------------------------------------------------------
(* Bounds *)

MaxCalls == 2
MaxIosCalls == 2
MaxReports == 3
MaxTimers == 3

----------------------------------------------------------------------------
(* Optional values *)

Null == <<>>
Some(x) == <<x>>

----------------------------------------------------------------------------
(* Inputs of the web client *)

\* what getToken() of useAuth settles with: a token, null, or a rejection
GetTokenOutcomes ==
    { [kind |-> "resolve", value |-> v] : v \in {Null, Some(""), Some("jwtA"), Some("jwtB")} }
    \cup { [kind |-> "reject", message |-> m] : m \in {"", "Clerk: network error"} }

HttpStatuses == {200, 299, 304, 404, 500}

\* what fetch settles with: a Response carrying a status, or a rejection
FetchOutcomes ==
    { [kind |-> "resolve", status |-> s] : s \in HttpStatuses }
    \cup { [kind |-> "reject", message |-> m] : m \in {"", "Failed to fetch"} }

BodyTexts == {"", "<html>", "{}", "[1]"}

\* what reading the body (Response.text / Response.json) settles with
BodyOutcomes ==
    { [kind |-> "resolve", text |-> t] : t \in BodyTexts }
    \cup { [kind |-> "reject", message |-> "network error"] }

ViteApiBaseUrls == {"", "https://api.zeno.test"}

----------------------------------------------------------------------------
(* Pure parts of testApi *)

endpoints ==
    << [path |-> "/user/test-auth", label |-> "Test Auth"],
       [path |-> "/user/me",        label |-> "Get Profile"],
       [path |-> "/user/tasks",     label |-> "Get Tasks"],
       [path |-> "/user/briefings", label |-> "Get Briefings"],
       [path |-> "/user/sessions",  label |-> "Get Sessions"] >>

\* the values of the <option> elements of the select
OptionValues_Labels == { endpoints[i].label : i \in 1..Len(endpoints) }
OptionValues == { endpoints[i].path : i \in 1..Len(endpoints) }

InitialEndpoint == "/user/test-auth"

\* import.meta.env.VITE_API_BASE_URL || 'http://localhost:8000'
apiBaseUrl == IF viteApiBaseUrl = "" THEN "http://localhost:8000" ELSE viteApiBaseUrl

\* !token
TokenMissing_NullOnly(value) == value = Null
TokenMissing(value) == value = Null \/ value = Some("")

Authorization(token) == "Bearer " \o token

\* the RequestInit and URL handed to fetch
WebRequest(ep, token) ==
    [ method  |-> "GET",
      url     |-> apiBaseUrl \o ep,
      headers |-> [ Authorization |-> Authorization(token),
                    ContentType   |-> "application/json" ] ]

\* Response.ok
ok_Only200(status) == status = 200
ok(status) == status \in 200..299

HttpErrorMessage_NoBody(status, errorText) == "HTTP " \o ToString(status)
HttpErrorMessage(status, errorText) ==
    "HTTP " \o ToString(status) \o ": " \o errorText

\* JSON.parse as Response.json applies it to the body text
JsonParse(text) ==
    CASE text = "{}"  -> Some([type |-> "object", members |-> 0])
      [] text = "[1]" -> Some([type |-> "array", members |-> 1])
      [] OTHER        -> Null

JsonSyntaxError == "Unexpected end of JSON input"

\* error.message || 'Unknown error occurred'
CatchMessage_Raw(message) == message
CatchMessage(message) == IF message = "" THEN "Unknown error occurred" ELSE message

SuccessRecord(data) == [success |-> TRUE, data |-> data]
ErrorRecord(message) == [success |-> FALSE, error |-> CatchMessage(message)]

\* disabled={loading}
disabled_Never == FALSE
disabled == loading

----------------------------------------------------------------------------
(* The TestBackend component *)

NewCall(id, ep) ==
    [ id       |-> id,
      endpoint |-> ep,       \* the parameter of testApi
      pc       |-> "getToken",
      got      |-> Null,     \* what await getToken() settled with
      status   |-> Null,     \* response.status of the local const response
      body     |-> Null,     \* the body text, once text() or json() has read it
      stores   |-> <<>>,     \* the arguments of this call's setResponse(record)
      reqs     |-> <<>> ]    \* the requests this call handed to fetch

Pending(c) == c.pc # "done"

\* a finished invocation holds no state any more: it is dropped at the next click
Unfinished(cs) == SelectSeq(cs, Pending)

\* testApi, lines 17-22: setLoading(true); setResponse(null); await getToken()
testApi_NoClear(ep) ==
    /\ loading' = TRUE
    /\ UNCHANGED response
    /\ started' = started + 1
    /\ calls' = Append(Unfinished(calls), NewCall(started + 1, ep))
testApi(ep) ==
    /\ loading' = TRUE
    /\ response' = Null
    /\ started' = started + 1
    /\ calls' = Append(Unfinished(calls), NewCall(started + 1, ep))

\* onClick={() => testApi(endpoint)} of the button, which is disabled={loading}
onClick ==
    /\ client = "web"
    /\ mounted
    /\ ~disabled
    /\ started < MaxCalls
    /\ testApi(endpoint)
    /\ UNCHANGED <<client, viteApiBaseUrl, mounted, endpoint, infoPlistUrl, icalls, uiVars>>

\* onChange={(e) => setEndpoint(e.target.value)} of the select
onChange(value) ==
    /\ client = "web"
    /\ mounted
    /\ value # endpoint
    /\ endpoint' = value
    /\ UNCHANGED <<client, viteApiBaseUrl, mounted, loading, response, started,
                   calls, infoPlistUrl, icalls, uiVars>>

\* the user signs out: <SignedIn> stops rendering TestBackend.  The component
\* has no effect cleanup and testApi holds no AbortController, so the pending
\* invocation goes on; React drops state updates of an unmounted component.
Dismiss ==
    /\ client = "web"
    /\ mounted
    /\ mounted' = FALSE
    /\ UNCHANGED <<client, viteApiBaseUrl, loading, response, endpoint, started,
                   calls, infoPlistUrl, icalls, uiVars>>

\* setResponse(record) followed by the finally block's setLoading(false)
SetResponseThenLoading_NoFinally(record) ==
    IF mounted
    THEN /\ response' = Some(record)
         /\ UNCHANGED loading
    ELSE UNCHANGED <<response, loading>>
SetResponseThenLoading(record) ==
    IF mounted
    THEN /\ response' = Some(record)
         /\ loading' = FALSE
    ELSE UNCHANGED <<response, loading>>

\* lines 50 and 57-59: setResponse({ success: true, data }); finally
Succeed(i, text, data) ==
    /\ calls' = [calls EXCEPT ![i].pc = "done",
                              ![i].body = Some(text),
                              ![i].stores = Append(@, SuccessRecord(data))]
    /\ SetResponseThenLoading(SuccessRecord(data))

\* lines 51-59: catch (error) { setResponse({ success: false, ... }) } finally;
\* got and body are what the try block had bound when it threw
Catch(i, got, body, message) ==
    /\ calls' = [calls EXCEPT ![i].pc = "done",
                              ![i].got = got,
                              ![i].body = body,
                              ![i].stores = Append(@, ErrorRecord(message))]
    /\ SetResponseThenLoading(ErrorRecord(message))

\* lines 22-38: the continuation of await getToken()
AfterGetToken(i, outcome) ==
    /\ client = "web"
    /\ i \in 1..Len(calls)
    /\ calls[i].pc = "getToken"
    /\ IF outcome.kind = "reject"
       THEN Catch(i, Some(outcome), Null, outcome.message)
       ELSE IF TokenMissing(outcome.value)
       THEN Catch(i, Some(outcome), Null, "No auth token available")
       ELSE /\ calls' = [calls EXCEPT
                           ![i].pc = "fetch",
                           ![i].got = Some(outcome),
                           ![i].reqs = Append(@, WebRequest(calls[i].endpoint,
                                                            outcome.value[1]))]
            /\ UNCHANGED <<response, loading>>
    /\ UNCHANGED <<client, viteApiBaseUrl, mounted, endpoint, started,
                   infoPlistUrl, icalls, uiVars>>

\* lines 32-47: the continuation of await fetch(...)
AfterFetch_Retry(i, outcome) ==
    /\ client = "web"
    /\ i \in 1..Len(calls)
    /\ calls[i].pc = "fetch"
    /\ IF outcome.kind = "reject"
       THEN IF Len(calls[i].reqs) < 2
            THEN /\ calls' = [calls EXCEPT ![i].reqs = Append(@, @[1])]
                 /\ UNCHANGED <<response, loading>>
            ELSE Catch(i, calls[i].got, Null, outcome.message)
       ELSE /\ calls' = [calls EXCEPT
                           ![i].pc = IF ok(outcome.status) THEN "json" ELSE "text",
                           ![i].status = Some(outcome.status)]
            /\ UNCHANGED <<response, loading>>
    /\ UNCHANGED <<client, viteApiBaseUrl, mounted, endpoint, started,
                   infoPlistUrl, icalls, uiVars>>
AfterFetch(i, outcome) ==
    /\ client = "web"
    /\ i \in 1..Len(calls)
    /\ calls[i].pc = "fetch"
    /\ IF outcome.kind = "reject"
       THEN Catch(i, calls[i].got, Null, outcome.message)
       ELSE /\ calls' = [calls EXCEPT
                           ![i].pc = IF ok(outcome.status) THEN "json" ELSE "text",
                           ![i].status = Some(outcome.status)]
            /\ UNCHANGED <<response, loading>>
    /\ UNCHANGED <<client, viteApiBaseUrl, mounted, endpoint, started,
                   infoPlistUrl, icalls, uiVars>>

\* lines 43-44: the continuation of await response.text()
AfterText(i, outcome) ==
    /\ client = "web"
    /\ i \in 1..Len(calls)
    /\ calls[i].pc = "text"
    /\ IF outcome.kind = "reject"
       THEN Catch(i, calls[i].got, Null, outcome.message)
       ELSE Catch(i, calls[i].got, Some(outcome.text),
                  HttpErrorMessage(calls[i].status[1], outcome.text))
    /\ UNCHANGED <<client, viteApiBaseUrl, mounted, endpoint, started,
                   infoPlistUrl, icalls, uiVars>>

\* lines 47-50: the continuation of await response.json()
AfterJson(i, outcome) ==
    /\ client = "web"
    /\ i \in 1..Len(calls)
    /\ calls[i].pc = "json"
    /\ IF outcome.kind = "reject"
       THEN Catch(i, calls[i].got, Null, outcome.message)
       ELSE IF JsonParse(outcome.text) = Null
       THEN Catch(i, calls[i].got, Some(outcome.text), JsonSyntaxError)
       ELSE Succeed(i, outcome.text, JsonParse(outcome.text)[1])
    /\ UNCHANGED <<client, viteApiBaseUrl, mounted, endpoint, started,
                   infoPlistUrl, icalls, uiVars>>

----------------------------------------------------------------------------
(* Inputs of the iOS client.  A Swift String that the code slices (the base  *)
(* URL) is a sequence of pieces, "/" and the quote being pieces of their own. *)

Quote == "\""
Host == "https://api.zeno.test"

\* Bundle.main.object(forInfoDictionaryKey: "ApiBaseUrl") as? String
InfoPlistUrls ==
    { Null,
      Some(<<Host>>),
      Some(<<Quote, Host, "/", "/", Quote>>) }

\* the (roomName, participantName) arguments callers pass
CallArguments == { <<"room-a", "alice">>, <<"room-b", "bob">> }

\* what the token step meets: no Clerk session, session.getToken() throwing,
\* a nil TokenResource, or a TokenResource with its jwt
ClerkOutcomes ==
    { [kind |-> "noSession"], [kind |-> "getTokenThrows"], [kind |-> "nilResource"] }
    \cup { [kind |-> "resource", jwt |-> t] : t \in {"jwtA", "jwtB"} }

IosStatuses == {299, 300}

FullObject ==
    [ session_id    |-> "sess-1",
      room_name     |-> "zeno-room-1",
      livekit_token |-> "lk-token-1",
      livekit_url   |-> "wss://livekit.zeno.test",
      agent_type    |-> "main_zeno",
      user_id       |-> "user-1" ]

PartialObject ==
    [ session_id    |-> "sess-1",
      room_name     |-> "zeno-room-1",
      livekit_token |-> "lk-token-1",
      livekit_url   |-> "wss://livekit.zeno.test",
      agent_type    |-> "main_zeno" ]

\* a Data value: its reading as UTF-8 text (nil when the bytes are not UTF-8)
\* and the JSON object it holds (nil when it is not a JSON object)
Datas ==
    { [utf8 |-> Some("{full}"),       json |-> Some(FullObject)],
      [utf8 |-> Some("{partial}"),    json |-> Some(PartialObject)],
      [utf8 |-> Some("Unauthorized"), json |-> Null],
      [utf8 |-> Null,                 json |-> Null] }

\* what URLSession.shared.data(for:) does: throws, or returns (data, response)
DataOutcomes ==
    { [kind |-> "throw", error |-> [case |-> "URLError", code |-> "notConnectedToInternet"]] }
    \cup { [kind |-> "nonHttp", data |-> d] : d \in {[utf8 |-> Null, json |-> Null]} }
    \cup { [kind |-> "http", statusCode |-> s, data |-> d] : s \in IosStatuses, d \in Datas }

----------------------------------------------------------------------------
(* Pure parts of TokenService *)

RECURSIVE TrimLeading(_, _)
TrimLeading(str, ch) ==
    IF str # <<>> /\ Head(str) = ch THEN TrimLeading(Tail(str), ch) ELSE str

RECURSIVE TrimTrailing(_, _)
TrimTrailing(str, ch) ==
    IF str # <<>> /\ str[Len(str)] = ch
    THEN TrimTrailing(SubSeq(str, 1, Len(str) - 1), ch)
    ELSE str

\* url.trimmingCharacters(in: CharacterSet(charactersIn: "\""))
trimmingCharacters(str, ch) == TrimTrailing(TrimLeading(str, ch), ch)

fallbackUrl == <<"https://d95f3ba12854.ngrok-free.app", "/">>

\* private let apiBaseUrl: String = { ... }()
TokenService_apiBaseUrl ==
    IF infoPlistUrl # Null
    THEN trimmingCharacters(infoPlistUrl[1], Quote)
    ELSE fallbackUrl

hasSuffix(str, ch) == str # <<>> /\ str[Len(str)] = ch
dropLast(str) == IF str = <<>> THEN <<>> ELSE SubSeq(str, 1, Len(str) - 1)

\* apiBaseUrl.hasSuffix("/") ? String(apiBaseUrl.dropLast()) : apiBaseUrl
cleanBaseUrl ==
    IF hasSuffix(TokenService_apiBaseUrl, "/")
    THEN dropLast(TokenService_apiBaseUrl)
    ELSE TokenService_apiBaseUrl

SessionCreatePath == <<"/", "agent", "/", "session", "/", "create">>

\* "Bearer \(clerkToken)"
BearerValue_Raw(clerkToken) == clerkToken
BearerValue(clerkToken) == "Bearer " \o clerkToken

\* the URLRequest built by fetchConnectionDetailsFromBackend, lines 121-136
IosRequest(clerkToken) ==
    [ httpMethod |-> "POST",
      url        |-> cleanBaseUrl \o SessionCreatePath,
      headers    |-> [ ContentType   |-> "application/json",
                       Authorization |-> BearerValue(clerkToken) ],
      httpBody   |-> [ agent_type      |-> "main_zeno",
                       session_type    |-> "ios",
                       initial_context |-> <<>> ] ]

\* (200...299).contains(httpResponse.statusCode)
StatusAccepted_To300(statusCode) == statusCode \in 200..300
StatusAccepted(statusCode) == statusCode \in 200..299

\* String(data: data, encoding: .utf8) ?? "Unknown error"
errorMessage(data) == IF data.utf8 = Null THEN "Unknown error" ELSE data.utf8[1]

\* TokenServiceError.backendError("HTTP \(httpResponse.statusCode): \(errorMessage)")
StatusError(statusCode, data) ==
    [ case    |-> "backendError",
      message |-> "HTTP " \o ToString(statusCode) \o ": " \o errorMessage(data) ]

BackendResponseKeys ==
    {"session_id", "room_name", "livekit_token", "livekit_url", "agent_type", "user_id"}

\* JSONDecoder().decode(BackendResponse.self, from: data): nil stands for a
\* thrown DecodingError
decode(data) ==
    IF data.json # Null /\ BackendResponseKeys \subseteq DOMAIN data.json[1]
    THEN Some([k \in BackendResponseKeys |-> data.json[1][k]])
    ELSE Null

\* ConnectionDetails(serverUrl:roomName:participantName:participantToken:)
ConnectionDetails_Swapped(backendResponse) ==
    [ serverUrl        |-> backendResponse.livekit_url,
      roomName         |-> backendResponse.session_id,
      participantName  |-> "user",
      participantToken |-> backendResponse.livekit_token ]
ConnectionDetails(backendResponse) ==
    [ serverUrl        |-> backendResponse.livekit_url,
      roomName         |-> backendResponse.room_name,
      participantName  |-> "user",
      participantToken |-> backendResponse.livekit_token ]

\* getClerkSessionToken(): the String? it returns for each outcome in which
\* it returns
ClerkToken(outcome) ==
    IF outcome.kind = "resource" THEN Some(outcome.jwt) ELSE Null

----------------------------------------------------------------------------
(* The TokenService actor *)

NewIosCall(roomName, participantName) ==
    [ roomName        |-> roomName,
      participantName |-> participantName,
      pc              |-> "getToken",
      clerkToken      |-> Null,
      data            |-> Null,   \* the Data that URLSession returned
      statusCode      |-> Null,
      steps           |-> <<>>,   \* the steps taken, in order
      reqs            |-> <<>>,   \* the requests handed to URLSession
      result          |-> Null ]  \* what the call returned or threw

Returned(details) == [kind |-> "returned", details |-> details]
Threw(thrown) == [kind |-> "threw", error |-> thrown]

\* an uncaught Objective-C exception ends the process
Alive == \A i \in 1..Len(icalls) : icalls[i].pc # "crashed"

\* fetchConnectionDetails(roomName:participantName:), up to its first await;
\* an actor is reentrant at every await, so calls may overlap
fetchConnectionDetails(roomName, participantName) ==
    /\ client = "ios"
    /\ Alive
    /\ Len(icalls) < MaxIosCalls
    /\ icalls' = Append(icalls, NewIosCall(roomName, participantName))
    /\ UNCHANGED <<client, webVars, infoPlistUrl, uiVars>>

\* lines 55-58: guard let clerkToken = await getClerkSessionToken() else throw
ThrowAuthenticationFailed(i) ==
    icalls' = [icalls EXCEPT
                 ![i].pc = "done",
                 ![i].steps = Append(@, "token"),
                 ![i].result = Some(Threw([case |-> "authenticationFailed"]))]

\* lines 63-65 and 119-142: the request is built and handed to URLSession
fetchConnectionDetailsFromBackend_WithRoom(i, clerkToken) ==
    icalls' = [icalls EXCEPT
                 ![i].pc = "data",
                 ![i].clerkToken = Some(clerkToken),
                 ![i].steps = @ \o <<"token", "post">>,
                 ![i].reqs = Append(@,
                     [IosRequest(clerkToken) EXCEPT
                        !.httpBody = [ agent_type      |-> "main_zeno",
                                       session_type    |-> "ios",
                                       initial_context |-> <<>>,
                                       room_name       |-> icalls[i].roomName ]])]
fetchConnectionDetailsFromBackend(i, clerkToken) ==
    icalls' = [icalls EXCEPT
                 ![i].pc = "data",
                 ![i].clerkToken = Some(clerkToken),
                 ![i].steps = @ \o <<"token", "post">>,
                 ![i].reqs = Append(@, IosRequest(clerkToken))]

\* lines 71-117 then 55-65: the continuation of await getClerkSessionToken().
\* With a nil TokenResource the key-value lookup of line 89 is applied to an
\* object without that key: it either yields nil or raises an Objective-C
\* exception that Swift's catch does not see.
AfterClerkToken(i, outcome) ==
    /\ client = "ios"
    /\ Alive
    /\ i \in 1..Len(icalls)
    /\ icalls[i].pc = "getToken"
    /\ IF ClerkToken(outcome) # Null
       THEN fetchConnectionDetailsFromBackend(i, ClerkToken(outcome)[1])
       ELSE \/ ThrowAuthenticationFailed(i)
            \/ /\ outcome.kind = "nilResource"
               /\ icalls' = [icalls EXCEPT ![i].pc = "crashed"]
    /\ UNCHANGED <<client, webVars, infoPlistUrl, uiVars>>

\* lines 142-166: the continuation of await URLSession.shared.data(for:)
AfterData(i, outcome) ==
    /\ client = "ios"
    /\ Alive
    /\ i \in 1..Len(icalls)
    /\ icalls[i].pc = "data"
    /\ icalls' =
         IF outcome.kind = "throw"
         THEN [icalls EXCEPT ![i].pc = "done",
                             ![i].result = Some(Threw(outcome.error))]
         ELSE IF outcome.kind = "nonHttp"
         THEN [icalls EXCEPT ![i].pc = "done",
                             ![i].data = Some(outcome.data),
                             ![i].result = Some(Threw([case |-> "backendError",
                                                       message |-> "Invalid response"]))]
         ELSE IF ~StatusAccepted(outcome.statusCode)
         THEN [icalls EXCEPT ![i].pc = "done",
                             ![i].data = Some(outcome.data),
                             ![i].statusCode = Some(outcome.statusCode),
                             ![i].result = Some(Threw(StatusError(outcome.statusCode,
                                                                  outcome.data)))]
         ELSE IF decode(outcome.data) = Null
         THEN [icalls EXCEPT ![i].pc = "done",
                             ![i].data = Some(outcome.data),
                             ![i].statusCode = Some(outcome.statusCode),
                             ![i].steps = Append(@, "decode"),
                             ![i].result = Some(Threw([case |-> "DecodingError"]))]
         ELSE [icalls EXCEPT ![i].pc = "done",
                             ![i].data = Some(outcome.data),
                             ![i].statusCode = Some(outcome.statusCode),
                             ![i].steps = Append(@, "decode"),
                             ![i].result = Some(Returned(
                                 ConnectionDetails(decode(outcome.data)[1])))]
    /\ UNCHANGED <<client, webVars, infoPlistUrl, uiVars>>

IosNext ==
    \/ \E a \in CallArguments : fetchConnectionDetails(a[1], a[2])
    \/ \E i \in 1..MaxIosCalls, outcome \in ClerkOutcomes : AfterClerkToken(i, outcome)
    \/ \E i \in 1..MaxIosCalls, outcome \in DataOutcomes : AfterData(i, outcome)

WebNext ==
    \/ onClick
    \/ \E value \in OptionValues : onChange(value)
    \/ Dismiss
    \/ \E i \in 1..MaxCalls, outcome \in GetTokenOutcomes : AfterGetToken(i, outcome)
    \/ \E i \in 1..MaxCalls, outcome \in FetchOutcomes : AfterFetch(i, outcome)
    \/ \E i \in 1..MaxCalls, outcome \in BodyOutcomes : AfterText(i, outcome)
    \/ \E i \in 1..MaxCalls, outcome \in BodyOutcomes : AfterJson(i, outcome)

WebInit ==
    /\ client = "web"
    /\ viteApiBaseUrl \in ViteApiBaseUrls
    /\ mounted = TRUE
    /\ loading = FALSE
    /\ response = Null
    /\ endpoint = InitialEndpoint
    /\ started = 0
    /\ calls = <<>>
    /\ infoPlistUrl = Null
    /\ icalls = <<>>
    /\ error = Null
    /\ errorHandler = "other"
    /\ reports = <<>>
    /\ dismissed = 0
    /\ isLoaded = FALSE
    /\ user = Null
    /\ briefing = ""
    /\ tasks = <<>>
    /\ dashLoading = TRUE
    /\ timers = 0

IosInit ==
    /\ client = "ios"
    /\ viteApiBaseUrl = ""
    /\ mounted = FALSE
    /\ loading = FALSE
    /\ response = Null
    /\ endpoint = InitialEndpoint
    /\ started = 0
    /\ calls = <<>>
    /\ infoPlistUrl \in InfoPlistUrls
    /\ icalls = <<>>
    /\ error = Null
    /\ errorHandler = "other"
    /\ reports = <<>>
    /\ dismissed = 0
    /\ isLoaded = FALSE
    /\ user = Null
    /\ briefing = ""
    /\ tasks = <<>>
    /\ dashLoading = TRUE
    /\ timers = 0

Init == WebInit \/ IosInit

Next == WebNext \/ IosNext

\* a run of either client
Spec == Init /\ [][Next]_vars

\* a run of the web client
WebSpec == WebInit /\ [][WebNext]_vars

\* a run of the iOS client
IosSpec == IosInit /\ [][IosNext]_vars

\* a run of the web client in which every awaited promise settles: the
\* JavaScript event loop runs the continuation of a settled promise
WebFairSpec ==
    /\ WebSpec
    /\ \A i \in 1..MaxCalls :
         /\ WF_vars(\E outcome \in GetTokenOutcomes : AfterGetToken(i, outcome))
         /\ WF_vars(\E outcome \in FetchOutcomes : AfterFetch(i, outcome))
         /\ WF_vars(\E outcome \in BodyOutcomes : AfterText(i, outcome))
         /\ WF_vars(\E outcome \in BodyOutcomes : AfterJson(i, outcome))

----------------------------------------------------------------------------
(* Properties of the web client *)

WebCalls == { calls[i] : i \in 1..Len(calls) }
Finished(c) == c.pc = "done"

\* the call reached fetch and fetch rejected
FetchRejected(c) == Finished(c) /\ c.reqs # <<>> /\ c.status = Null
\* the call got a Response with a status outside 200..299
Non2xx(c) == c.status # Null /\ c.status[1] \notin 200..299
\* the call got a Response with a status in 200..299
Is2xx(c) == c.status # Null /\ c.status[1] \in 200..299

IsErrorWith(record, message) == record = [success |-> FALSE, error |-> message]

\* the call ended with the single record r, which the mounted component shows
EndedWith(c, r) ==
    /\ c.stores = <<r>>
    /\ mounted => response = <<r>> /\ loading = FALSE

HttpText(status, text) == "HTTP " \o ToString(status) \o ": " \o text

C2_AsStated ==
    \A c \in WebCalls :
        Finished(c) /\ Is2xx(c) =>
            /\ c.body # Null
            /\ JsonParse(c.body[1]) # Null
            /\ EndedWith(c, [success |-> TRUE, data |-> JsonParse(c.body[1])[1]])

\* C2: in the mounted component, whenever the reply has a status in 200..299
\* and its body is read and parses as JSON, the call ends with response =
\* {success: true, data: the parsed body}; a reply with a status in 200..299
\* whose body cannot be read or is not JSON ends with an error record.
C2_SuccessSurfaced ==
    \A c \in WebCalls :
        Finished(c) /\ Is2xx(c) =>
            IF c.body # Null /\ c.body[1] \in {"{}", "[1]"}
            THEN EndedWith(c, [success |-> TRUE, data |-> JsonParse(c.body[1])[1]])
            ELSE /\ Len(c.stores) = 1
                 /\ c.stores[1].success = FALSE
                 /\ EndedWith(c, c.stores[1])

\* a call answered with 299 and the body [1] has ended and its data is shown
C2_Witness ==
    \E c \in WebCalls :
        /\ Finished(c) /\ mounted
        /\ c.status = <<299>> /\ c.body = <<"[1]">>
        /\ response = <<[success |-> TRUE, data |-> [type |-> "array", members |-> 1]]>>
        /\ loading = FALSE

\* C5: at most one testApi invocation is unresolved at any time, at most one
\* request is awaiting its reply, loading is true for as long as an invocation
\* is unresolved, and an invocation starts only while loading is false.
C5_OneInFlight ==
    /\ [](/\ Len(Unfinished(calls)) <= 1
          /\ Cardinality({i \in 1..Len(calls) : calls[i].pc \in {"fetch", "text", "json"}}) <= 1
          /\ Len(Unfinished(calls)) = 1 => loading = TRUE)
    /\ [][started' # started => loading = FALSE /\ loading' = TRUE]_vars

\* a request is awaiting its reply, the button is disabled, and the user can
\* still start a later call
C5_Witness ==
    /\ mounted /\ loading = TRUE /\ started = 1 /\ started < MaxCalls
    /\ \E c \in WebCalls : c.pc = "fetch"

\* C7: every request of the web client is a GET whose Authorization header is
\* 'Bearer ' followed by the non-empty token getToken resolved with for that
\* call; when getToken resolves with null or the empty string the call issues
\* no request and ends, in the mounted component, with response =
\* {success: false, error: 'No auth token available'}.
C7_BearerToken ==
    \A c \in WebCalls :
        /\ \A k \in 1..Len(c.reqs) :
              /\ c.reqs[k].method = "GET"
              /\ c.got # Null
              /\ c.got[1].kind = "resolve"
              /\ c.got[1].value \notin {<<>>, <<"">>}
              /\ c.reqs[k].headers.Authorization = "Bearer " \o c.got[1].value[1]
        /\ (c.got # Null /\ c.got[1].kind = "resolve" /\ c.got[1].value \in {<<>>, <<"">>}) =>
              /\ c.reqs = <<>>
              /\ Finished(c)
              /\ EndedWith(c, [success |-> FALSE, error |-> "No auth token available"])

\* getToken resolved with the empty string: no request, the error is shown
C7_Witness ==
    \E c \in WebCalls :
        /\ mounted
        /\ c.got = <<[kind |-> "resolve", value |-> <<"">>]>>
        /\ c.reqs = <<>>
        /\ response = <<[success |-> FALSE, error |-> "No auth token available"]>>

FivePaths ==
    {"/user/test-auth", "/user/me", "/user/tasks", "/user/briefings", "/user/sessions"}

\* C8: the endpoint state starts at /user/test-auth and stays one of the five
\* fixed paths, every request goes to the base URL followed by one of the five
\* paths, and testApi is called with the endpoint state of that moment.
C8_FixedEndpoints ==
    /\ endpoint = "/user/test-auth"
    /\ [](/\ endpoint \in FivePaths
          /\ \A c \in WebCalls :
                /\ c.endpoint \in FivePaths
                /\ \A k \in 1..Len(c.reqs) :
                      \E path \in FivePaths : c.reqs[k].url = apiBaseUrl \o path)
    /\ [][started' # started => calls'[Len(calls')].endpoint = endpoint]_vars

\* after a selection, a request went to /user/sessions
C8_Witness ==
    /\ endpoint = "/user/sessions"
    /\ \E c \in WebCalls :
          c.reqs # <<>> /\ c.reqs[1].url = apiBaseUrl \o "/user/sessions"

\* C10 as stated: whenever a testApi invocation has ended, response is
\* non-null and loading is false, also when the view was dismissed meanwhile.
C10_AsStated ==
    \A c \in WebCalls : Finished(c) => response # Null /\ loading = FALSE

\* C10: nothing aborts a started testApi: if every awaited promise settles,
\* the invocation ends after handing exactly one record to setResponse; if the
\* component is still mounted then, response is non-null and loading is false,
\* and if the view was dismissed meanwhile the state of the component is left
\* as it was.
C10_Completion ==
    /\ (\E c \in WebCalls : ~Finished(c))
          ~> (/\ \A c \in WebCalls : Finished(c) /\ Len(c.stores) = 1
              /\ mounted => response # Null /\ loading = FALSE)
    /\ [][~mounted => response' = response /\ loading' = loading]_vars

\* the view was dismissed while a request was awaiting its reply, and the
\* invocation has ended all the same
C10_Witness ==
    /\ ~mounted /\ loading = TRUE /\ response = Null
    /\ \E c \in WebCalls : Finished(c) /\ c.reqs # <<>> /\ Len(c.stores) = 1

----------------------------------------------------------------------------
(* Properties of the iOS client *)

IosCalls == { icalls[i] : i \in 1..Len(icalls) }
IosFinished(c) == c.pc = "done"

\* C3 as stated: whenever the backend answers with a status outside 200..299
\* the call throws backendError('HTTP <status>: <response body>') and returns
\* nothing; an error thrown by URLSession is thrown on unchanged.
C3_AsStated ==
    \A c \in IosCalls :
        /\ IosFinished(c) /\ c.statusCode # Null /\ c.statusCode[1] \notin 200..299 =>
              /\ c.data[1].utf8 # Null
              /\ c.result = <<[kind |-> "threw",
                               error |-> [case |-> "backendError",
                                          message |-> HttpText(c.statusCode[1],
                                                               c.data[1].utf8[1])]]>>
        /\ IosFinished(c) /\ c.reqs # <<>> /\ c.data = Null =>
              c.result = <<[kind |-> "threw",
                            error |-> [case |-> "URLError",
                                       code |-> "notConnectedToInternet"]]>>

\* C3: whenever the backend answers with a status outside 200..299 the call
\* throws backendError and returns nothing; the message is 'HTTP <status>: '
\* followed by the response body read as UTF-8, or by 'Unknown error' when the
\* body is not valid UTF-8; an error thrown by URLSession is thrown on
\* unchanged.
C3_BackendError ==
    \A c \in IosCalls :
        /\ IosFinished(c) /\ c.statusCode # Null /\ c.statusCode[1] \notin 200..299 =>
              c.result = <<[kind |-> "threw",
                            error |-> [case |-> "backendError",
                                       message |-> HttpText(c.statusCode[1],
                                           IF c.data[1].utf8 = Null
                                           THEN "Unknown error"
                                           ELSE c.data[1].utf8[1])]]>>
        /\ IosFinished(c) /\ c.reqs # <<>> /\ c.data = Null =>
              c.result = <<[kind |-> "threw",
                            error |-> [case |-> "URLError",
                                       code |-> "notConnectedToInternet"]]>>

\* the backend answered 300 with a text body and the call threw backendError
C3_Witness ==
    \E c \in IosCalls :
        /\ c.statusCode = <<300>>
        /\ c.result = <<[kind |-> "threw",
                         error |-> [case |-> "backendError",
                                    message |-> "HTTP 300: Unauthorized"]]>>

\* C4: no invocation of testApi and no invocation of fetchConnectionDetails
\* issues more than one HTTP request, whatever the outcome of the request.
C4_NoRetry ==
    /\ \A c \in WebCalls : Len(c.reqs) <= 1
    /\ \A c \in IosCalls : Len(c.reqs) <= 1

\* a testApi invocation whose fetch rejected has ended with one request issued
C4_Witness ==
    \E c \in WebCalls : FetchRejected(c) /\ Len(c.reqs) = 1 /\ Len(c.stores) = 1

IsPrefix(s, t) == Len(s) <= Len(t) /\ s = SubSeq(t, 1, Len(s))

\* C6: every fetchConnectionDetails takes its steps in the order token, POST,
\* decode; a request exists only once a token was obtained and its
\* Authorization header is 'Bearer ' followed by that token; the body is
\* decoded only when the status is in 200..299.
C6_Ordering ==
    \A c \in IosCalls :
        /\ IsPrefix(c.steps, <<"token", "post", "decode">>)
        /\ c.reqs # <<>> <=> Len(c.steps) >= 2
        /\ c.reqs # <<>> =>
              /\ c.clerkToken # Null
              /\ c.reqs[1].headers.Authorization = "Bearer " \o c.clerkToken[1]
        /\ Len(c.steps) = 3 =>
              c.statusCode # Null /\ c.statusCode[1] >= 200 /\ c.statusCode[1] <= 299

\* a call went through all three steps and returned
C6_Witness ==
    \E c \in IosCalls :
        /\ c.steps = <<"token", "post", "decode">>
        /\ c.reqs[1].headers.Authorization = "Bearer jwtA"
        /\ c.result # Null /\ c.result[1].kind = "returned"

\* C9: every request of the iOS client is a POST to a URL ending in
\* /agent/session/create with the JSON body {agent_type: 'main_zeno',
\* session_type: 'ios', initial_context: {}}, and two calls that obtained the
\* same token sent identical requests whatever their arguments.
C9_RequestShape ==
    /\ \A c \in IosCalls : \A k \in 1..Len(c.reqs) :
          /\ c.reqs[k].httpMethod = "POST"
          /\ Len(c.reqs[k].url) >= 6
          /\ SubSeq(c.reqs[k].url, Len(c.reqs[k].url) - 5, Len(c.reqs[k].url))
                = <<"/", "agent", "/", "session", "/", "create">>
          /\ c.reqs[k].httpBody = [ agent_type      |-> "main_zeno",
                                    session_type    |-> "ios",
                                    initial_context |-> <<>> ]
    /\ \A c, d \in IosCalls :
          c.reqs # <<>> /\ d.reqs # <<>> /\ c.clerkToken = d.clerkToken =>
              c.reqs = d.reqs

\* two calls with different arguments and the same token have sent requests
C9_Witness ==
    \E c, d \in IosCalls :
        /\ c.roomName # d.roomName /\ c.participantName # d.participantName
        /\ c.clerkToken = d.clerkToken /\ c.clerkToken # Null
        /\ c.reqs # <<>> /\ c.reqs = d.reqs

\* C11: the URL of every request of the iOS client has no slash right before
\* the path /agent/session/create, whatever base URL is configured.
C11_NoDoubleSlash ==
    \A c \in IosCalls : \A k \in 1..Len(c.reqs) :
        Len(c.reqs[k].url) >= 7 => c.reqs[k].url[Len(c.reqs[k].url) - 6] # "/"

HasReturned(c) == c.result # Null /\ c.result[1].kind = "returned"

\* C12: the descriptor a call returns is built from the backend response
\* alone: serverUrl = livekit_url, roomName = room_name, participantToken =
\* livekit_token, participantName = 'user'; the caller's roomName and
\* participantName do not appear in it, and calls that received the same
\* response return the same descriptor.
C12_DescriptorFromResponse ==
    /\ \A c \in IosCalls :
          HasReturned(c) =>
              /\ c.data # Null /\ c.data[1].json # Null
              /\ c.result[1].details =
                    [ serverUrl        |-> c.data[1].json[1].livekit_url,
                      roomName         |-> c.data[1].json[1].room_name,
                      participantName  |-> "user",
                      participantToken |-> c.data[1].json[1].livekit_token ]
              /\ c.result[1].details.roomName # c.roomName
              /\ c.result[1].details.participantName # c.participantName
    /\ \A c, d \in IosCalls :
          HasReturned(c) /\ HasReturned(d) /\ c.data = d.data => c.result = d.result

\* two calls with different arguments have returned the same descriptor
C12_Witness ==
    \E c, d \in IosCalls :
        /\ c.roomName = "room-a" /\ d.roomName = "room-b"
        /\ HasReturned(c) /\ HasReturned(d)
        /\ c.result[1].details =
              [ serverUrl        |-> "wss://livekit.zeno.test",
                roomName         |-> "zeno-room-1",
                participantName  |-> "user",
                participantToken |-> "lk-token-1" ]

\* C14: in every state of the TestBackend component in which loading is true,
\* response is null.
C14_NoStaleResult == loading = TRUE => response = Null

\* a second call is in progress in the mounted component, after the first one
\* ended and showed its result
C14_Witness ==
    /\ mounted /\ started = 2 /\ loading = TRUE /\ response = Null
    /\ \E c \in WebCalls : c.id = 2 /\ c.pc = "fetch"

\* C15: every non-null response is well formed: with success = true it has
\* the fields success and data only; with success = false it has the fields
\* success and error only and error is a non-empty string, which for a
\* rejected getToken is the rejection's message, or 'Unknown error occurred'
\* when that message is empty.
C15_WellFormed ==
    /\ response # Null =>
          IF response[1].success
          THEN DOMAIN response[1] = {"success", "data"}
          ELSE /\ DOMAIN response[1] = {"success", "error"}
               /\ response[1].error # ""
    /\ \A c \in WebCalls :
          Finished(c) /\ c.got # Null /\ c.got[1].kind = "reject" =>
              c.stores = << [success |-> FALSE,
                             error |-> IF c.got[1].message = ""
                                       THEN "Unknown error occurred"
                                       ELSE c.got[1].message] >>

\* getToken rejected with an empty message and the fallback text is shown
C15_Witness ==
    /\ response = <<[success |-> FALSE, error |-> "Unknown error occurred"]>>
    /\ \E c \in WebCalls : c.got = <<[kind |-> "reject", message |-> ""]>>

\* C16: every call whose token step has ended without a token has thrown
\* authenticationFailed and has issued no request.
C16_TokenFailure ==
    \A c \in IosCalls :
        c.pc # "getToken" /\ c.clerkToken = Null =>
            /\ c.result = <<[kind |-> "threw", error |-> [case |-> "authenticationFailed"]]>>
            /\ c.reqs = <<>>

SixFields ==
    {"session_id", "room_name", "livekit_token", "livekit_url", "agent_type", "user_id"}

\* C17: a call that is no longer waiting has either returned or thrown, and
\* it has returned exactly when a token was obtained, the status was in
\* 200..299 and the body was a JSON object with all six fields; the returned
\* descriptor then carries the values of the body.
C17_ReturnsOnlyDecoded ==
    \A c \in IosCalls :
        c.pc \notin {"getToken", "data"} =>
            /\ c.result # Null
            /\ c.result[1].kind \in {"returned", "threw"}
            /\ c.result[1].kind = "returned" <=>
                  /\ c.clerkToken # Null
                  /\ c.statusCode # Null /\ c.statusCode[1] \in 200..299
                  /\ c.data # Null /\ c.data[1].json # Null
                  /\ SixFields \subseteq DOMAIN c.data[1].json[1]

----------------------------------------------------------------------------
(* The error slot of the iOS AppView *)

\* the errors that callers pass to Dependencies.shared.errorHandler
ReportedErrors == {"connectionFailed", "microphoneDenied", "backendError"}

WebIdle ==
    /\ viteApiBaseUrl = ""
    /\ mounted = FALSE
    /\ loading = FALSE
    /\ response = Null
    /\ endpoint = InitialEndpoint
    /\ started = 0
    /\ calls = <<>>

IosIdle ==
    /\ infoPlistUrl = Null
    /\ icalls = <<>>

AppViewInit ==
    /\ client = "appview"
    /\ WebIdle
    /\ IosIdle
    /\ error = Null
    /\ errorHandler = "other"
    /\ reports = <<>>
    /\ dismissed = 0
    /\ isLoaded = FALSE
    /\ user = Null
    /\ briefing = ""
    /\ tasks = <<>>
    /\ dashLoading = TRUE
    /\ timers = 0

\* line 85: the closure { error = $0 }
errorHandlerClosure_KeepFirst(e) == error' = IF error = Null THEN Some(e) ELSE error
errorHandlerClosure(e) == error' = Some(e)

\* lines 84-86: .onAppear { Dependencies.shared.errorHandler = { error = $0 } }
onAppear ==
    /\ client = "appview"
    /\ errorHandler' = "AppView"
    /\ UNCHANGED <<client, webVars, iosVars, error, reports, dismissed, dashVars>>

\* a caller invokes Dependencies.shared.errorHandler(e); before onAppear the
\* handler is not the closure of AppView and cannot reach its @State
Report(e) ==
    /\ client = "appview"
    /\ Len(reports) < MaxReports
    /\ reports' = Append(reports, e)
    /\ IF errorHandler = "AppView"
       THEN errorHandlerClosure(e)
       ELSE UNCHANGED error
    /\ UNCHANGED <<client, webVars, iosVars, errorHandler, dismissed, dashVars>>

\* lines 68 and 129: Button("error.ok") { error = nil } and
\* ErrorView(error: error) { self.error = nil }, which exist only while
\* error is not nil
DismissError ==
    /\ client = "appview"
    /\ error # Null
    /\ error' = Null
    /\ dismissed' = dismissed + 1
    /\ UNCHANGED <<client, webVars, iosVars, errorHandler, reports, dashVars>>

AppViewNext ==
    \/ onAppear
    \/ \E e \in ReportedErrors : Report(e)
    \/ DismissError

\* a run of the error slot of AppView
AppViewSpec == AppViewInit /\ [][AppViewNext]_vars

\* C13: the error slot of AppView holds at most one error; an error reported
\* through the handler AppView installed is stored in the slot, replacing an
\* earlier one; the slot changes only by such a report or by the user's
\* dismissal, and a dismissal sets it to nil.
C13_SingleErrorSlot ==
    /\ [](Len(error) <= 1)
    /\ [][reports' # reports /\ errorHandler = "AppView" =>
              error' = <<reports'[Len(reports')]>>]_vars
    /\ [][error' # error =>
              \/ reports' # reports /\ dismissed' = dismissed
              \/ reports' = reports /\ dismissed' = dismissed + 1 /\ error' = Null]_vars
    /\ [][dismissed' # dismissed => error # Null /\ error' = Null]_vars

\* a second report has replaced the first one, which was never dismissed
C13_Witness ==
    /\ errorHandler = "AppView"
    /\ reports = <<"connectionFailed", "microphoneDenied">>
    /\ dismissed = 0
    /\ error = <<"microphoneDenied">>

----------------------------------------------------------------------------
(* The task list of the Dashboard component *)

\* lines 30-34 of Dashboard: the argument of setTasks in the timeout
InitialTasks ==
    << [id |-> 1, title |-> "Review morning emails",  completed |-> FALSE],
       [id |-> 2, title |-> "Daily planning session", completed |-> FALSE],
       [id |-> 3, title |-> "Team standup meeting",   completed |-> FALSE] >>

\* the values useUser().user takes while signed in
Users == {"user_a", "user_b", "user_c"}

DashboardInit ==
    /\ client = "dashboard"
    /\ WebIdle
    /\ IosIdle
    /\ error = Null
    /\ errorHandler = "other"
    /\ reports = <<>>
    /\ dismissed = 0
    /\ isLoaded = FALSE
    /\ user = Null
    /\ briefing = ""
    /\ tasks = <<>>
    /\ dashLoading = TRUE
    /\ timers = 0

\* tasks.map(t => t.id === task.id ? { ...t, completed: !t.completed } : t)
ToggleTask_Complete(ts, id) ==
    [k \in 1..Len(ts) |->
        IF ts[k].id = id THEN [ts[k] EXCEPT !.completed = TRUE] ELSE ts[k]]
ToggleTask(ts, id) ==
    [k \in 1..Len(ts) |->
        IF ts[k].id = id THEN [ts[k] EXCEPT !.completed = ~@] ELSE ts[k]]

\* useUser() yields new values of isLoaded and user; the effect with the
\* dependencies [isLoaded, user] runs again and, if (isLoaded && user), sets
\* a timeout of one second
ClerkUpdate(l, u) ==
    /\ client = "dashboard"
    /\ <<l, u>> # <<isLoaded, user>>
    /\ isLoaded => l
    /\ ~l => u = Null
    /\ timers < MaxTimers
    /\ isLoaded' = l
    /\ user' = u
    /\ timers' = IF l /\ u # Null THEN timers + 1 ELSE timers
    /\ UNCHANGED <<client, webVars, iosVars, viewVars, briefing, tasks, dashLoading>>

\* the callback of setTimeout: setBriefing, setTasks, setLoading(false)
Timeout ==
    /\ client = "dashboard"
    /\ timers > 0
    /\ timers' = timers - 1
    /\ briefing' = "Good morning! Here's your day ahead..."
    /\ tasks' = InitialTasks
    /\ dashLoading' = FALSE
    /\ UNCHANGED <<client, webVars, iosVars, viewVars, isLoaded, user>>

\* onChange of the checkbox of the task with this id; the list is rendered
\* only when isLoaded and not loading
CheckboxOnChange(id) ==
    /\ client = "dashboard"
    /\ isLoaded /\ ~dashLoading
    /\ \E k \in 1..Len(tasks) : tasks[k].id = id
    /\ tasks' = ToggleTask(tasks, id)
    /\ UNCHANGED <<client, webVars, iosVars, viewVars, isLoaded, user, briefing,
                   dashLoading, timers>>

DashboardNext ==
    \/ \E l \in BOOLEAN, u \in {Null} \cup {Some(x) : x \in Users} : ClerkUpdate(l, u)
    \/ Timeout
    \/ \E id \in 1..3 : CheckboxOnChange(id)

\* a run of the Dashboard component
DashboardSpec == DashboardInit /\ [][DashboardNext]_vars

\* C18: toggling the checkbox of a task flips the completed flag of exactly
\* the task with that id and leaves the number of tasks, their order, ids,
\* titles and the other flags unchanged; toggling the same task twice gives
\* the task list back.
C18_ToggleFrame ==
    /\ [][\A id \in 1..3 : CheckboxOnChange(id) =>
             /\ Len(tasks') = Len(tasks)
             /\ Cardinality({k \in 1..Len(tasks) : tasks[k].id = id}) = 1
             /\ \A k \in 1..Len(tasks) :
                   /\ tasks'[k].id = tasks[k].id
                   /\ tasks'[k].title = tasks[k].title
                   /\ tasks'[k].completed =
                         IF tasks[k].id = id THEN ~tasks[k].completed
                                             ELSE tasks[k].completed]_vars
    /\ [](\A id \in 1..3 : ToggleTask(ToggleTask(tasks, id), id) = tasks)

\* the second task has been toggled and the third toggled twice
C18_Witness ==
    /\ isLoaded /\ ~dashLoading
    /\ Len(tasks) = 3
    /\ tasks[1].completed = FALSE /\ tasks[2].completed = TRUE /\ tasks[3].completed = FALSE
    /\ tasks[2].title = "Daily planning session"

====
